---- MODULE Spec2Model ----
(***************************************************************************)
(* A model of math-captcha: the expression engine (generateExpression,     *)
(* solve, latex, substitute, precedence) and the captcha manager's         *)
(* lifecycle (generate's callback chain, getImage, check, cleanup and the  *)
(* expiry timers).                                                         *)
(*                                                                         *)
(* JavaScript numbers are modelled as exact rationals extended with the    *)
(* IEEE specials (signed zero, +/-Infinity, NaN); rounding error of the    *)
(* binary format is not modelled.  Strings are sequences of tokens.        *)
(***************************************************************************)
EXTENDS Integers, Sequences, FiniteSets, TLC

(***************************************************************************)
(* Bounds of the model.                                                    *)
(***************************************************************************)
MaxOpsBound == 2        \* largest maxOps option the expression runs draw
MaxValue == 2           \* value pools are drawn from 0..MaxValue
MaxPool == 2            \* largest number of values in a drawn pool
MaxCalls == 2           \* generate calls per lifecycle run
MaxCleanups == 2        \* explicit cleanup calls per lifecycle run
MaxClientCalls == 1     \* generate calls per run of the querying client
MaxClientCleanups == 1  \* explicit cleanup calls per run of the querying client
MaxPlaces == 1          \* check's places argument ranges over 0..MaxPlaces
MaxStackOps == 2        \* most operators in a stack handed to solve and latex directly

(***************************************************************************)
(* Numbers.  [n, d]: d > 0 a reduced fraction n/d with n # 0;               *)
(* [0, 1] is +0, [0, -1] is -0, [1, 0] is Infinity, [-1, 0] is -Infinity,  *)
(* [0, 0] is NaN.                                                          *)
(***************************************************************************)
Abs(x) == IF x < 0 THEN -x ELSE x

RECURSIVE Gcd(_, _)
Gcd(a, b) == IF b = 0 THEN a ELSE Gcd(b, a % b)

NaN == [n |-> 0, d |-> 0]
PosInf == [n |-> 1, d |-> 0]
NegInf == [n |-> -1, d |-> 0]
PosZero == [n |-> 0, d |-> 1]
NegZero == [n |-> 0, d |-> -1]

IsNaN(x) == x.n = 0 /\ x.d = 0
IsInf(x) == x.n # 0 /\ x.d = 0
IsZero(x) == x.n = 0 /\ x.d # 0
IsFinite(x) == x.d # 0
\* TRUE when the sign bit is set
Negative(x) == x.n < 0 \/ (x.n = 0 /\ x.d < 0)

\* the finite number a/b (b # 0), reduced; a zero result takes the sign neg
Frac(a, b, neg) ==
    IF a = 0 THEN (IF neg THEN NegZero ELSE PosZero)
    ELSE LET g == Gcd(Abs(a), Abs(b))
             s == IF b < 0 THEN -1 ELSE 1
         IN  [n |-> (s * a) \div g, d |-> (s * b) \div g]

Int2Num(i) == Frac(i, 1, FALSE)
Signed(neg, x) == IF neg THEN [n |-> -x.n, d |-> x.d] ELSE x
Neg(x) == IF IsNaN(x) THEN NaN
          ELSE IF IsZero(x) THEN [n |-> 0, d |-> -x.d]
          ELSE [n |-> -x.n, d |-> x.d]

\* function(a, b) { return a+b; }
NumAdd(a, b) ==
    IF IsNaN(a) \/ IsNaN(b) THEN NaN
    ELSE IF IsInf(a) /\ IsInf(b) THEN (IF a = b THEN a ELSE NaN)
    ELSE IF IsInf(a) THEN a
    ELSE IF IsInf(b) THEN b
    ELSE IF IsZero(a) /\ IsZero(b) THEN (IF Negative(a) /\ Negative(b) THEN NegZero ELSE PosZero)
    ELSE IF IsZero(a) THEN b
    ELSE IF IsZero(b) THEN a
    ELSE Frac(a.n * b.d + b.n * a.d, a.d * b.d, FALSE)

\* function(a, b) { return a-b; }
NumSub(a, b) == NumAdd(a, Neg(b))

\* function(a, b) { return a*b; }
NumMul(a, b) ==
    LET neg == Negative(a) # Negative(b) IN
    IF IsNaN(a) \/ IsNaN(b) THEN NaN
    ELSE IF (IsInf(a) /\ IsZero(b)) \/ (IsZero(a) /\ IsInf(b)) THEN NaN
    ELSE IF IsInf(a) \/ IsInf(b) THEN Signed(neg, PosInf)
    ELSE IF IsZero(a) \/ IsZero(b) THEN (IF neg THEN NegZero ELSE PosZero)
    ELSE Frac(a.n * b.n, a.d * b.d, neg)

\* function(a, b) { return a/b; }
NumDiv(a, b) ==
    LET neg == Negative(a) # Negative(b) IN
    IF IsNaN(a) \/ IsNaN(b) THEN NaN
    ELSE IF (IsInf(a) /\ IsInf(b)) \/ (IsZero(a) /\ IsZero(b)) THEN NaN
    ELSE IF IsInf(a) \/ IsZero(b) THEN Signed(neg, PosInf)
    ELSE IF IsInf(b) \/ IsZero(a) THEN (IF neg THEN NegZero ELSE PosZero)
    ELSE Frac(a.n * b.d, a.d * b.n, neg)

\* the == of two numbers: NaN equals nothing, -0 equals +0
NumEq(a, b) ==
    /\ ~IsNaN(a)
    /\ ~IsNaN(b)
    /\ (a = b \/ (IsZero(a) /\ IsZero(b)))

\* Math.floor in place of Math.round
MathFloor(x) ==
    IF ~IsFinite(x) \/ IsZero(x) THEN x
    ELSE Frac(x.n \div x.d, 1, Negative(x))

\* Math.round: the nearest integer, a tie going towards +Infinity
MathRound(x) ==
    IF ~IsFinite(x) \/ IsZero(x) THEN x
    ELSE Frac((2 * x.n + x.d) \div (2 * x.d), 1, Negative(x))

RECURSIVE Pow10(_)
Pow10(k) == IF k = 0 THEN 1 ELSE 10 * Pow10(k - 1)

\* Math.pow(10, places), places a non-negative integer
MathPow10(places) == Int2Num(Pow10(places))

\* JavaScript values other than numbers
Undefined == [undefined |-> TRUE]
Null == [null |-> TRUE]
String(s) == [string |-> s]
Boolean(b) == [boolean |-> b]
NoReturn == [op |-> "none"]

(***************************************************************************)
(* Operators and expression stacks.  A stack is a sequence whose elements  *)
(* are numbers, [literal |-> v], Operator objects, and Undefined where an  *)
(* empty values array was read.                                            *)
(***************************************************************************)
\* function Operator(precedence, associative, doGroup, latex, arity, op)
Operator(precedence, associative, doGroup, latex, arity, op) ==
    [precedence |-> precedence, associative |-> associative, doGroup |-> doGroup,
     latex |-> latex, arity |-> arity, op |-> op]

Addition == Operator(5, TRUE, TRUE, <<"$1", "+", "$2">>, 2, "a+b")
Subtraction == Operator(5, FALSE, TRUE, <<"$1", "-", "$2">>, 2, "a-b")
Multiplication == Operator(3, TRUE, TRUE, <<"$1", "\\times", "$2">>, 2, "a*b")
Division == Operator(3, FALSE, FALSE, <<"\\frac{", "$1", "}{", "$2", "}">>, 2, "a/b")

\* operators a client appends with mc.operators.push(operator): one of
\* arity 1 and one of arity 3
Negation == Operator(1, FALSE, TRUE, <<"-", "$1">>, 1, "-a")
Sum3 == Operator(5, TRUE, TRUE, <<"$1", "+", "$2", "+", "$3">>, 3, "a+b+c")

\* this.operators after the constructor has run
DefaultOperators == <<Addition, Subtraction, Multiplication, Division>>

Lit(v) == [literal |-> v]
\* array[i], i counted from 0: undefined past the end of the array
element(array, i) == IF i + 1 \in DOMAIN array THEN Lit(array[i + 1]) ELSE Undefined
\* exp instanceof Operator
InstanceofOperator(exp) == "arity" \in DOMAIN exp

\* exp.op.apply(null, args)
Apply(op, args) ==
    CASE op = "a+b" -> NumAdd(args[1], args[2])
      [] op = "a-b" -> NumSub(args[1], args[2])
      [] op = "a*b" -> NumMul(args[1], args[2])
      [] op = "a/b" -> NumDiv(args[1], args[2])
      [] op = "-a" -> Neg(args[1])
      [] op = "a+b+c" -> NumAdd(NumAdd(args[1], args[2]), args[3])

Last(s) == s[Len(s)]
Front(s) == SubSeq(s, 1, Len(s) - 1)

\* randInt(n, m): n + floor(random * (m - n + 1)) for some random in [0, 1)
randInt(n, m) == IF m >= n THEN n .. m ELSE (m + 1) .. n

\* a while loop that pushes a fresh value for every operand of the operator
RECURSIVE pushValuesAllFresh(_, _, _, _)
pushValuesAllFresh(rtn, valCount, arity, values) ==
    IF arity > 0
    THEN UNION { pushValuesAllFresh(Append(rtn, element(values, j)), valCount, arity - 1, values) :
                 j \in randInt(0, Len(values) - 1) }
    ELSE { rtn }

\* One pass of generateExpression's for loop and the passes after it: the set
\* of stacks the loop can return from iteration i on.
RECURSIVE pushValues(_, _, _, _)
pushValues(rtn, valCount, arity, values) ==
    IF valCount < arity
    THEN UNION { pushValues(Append(rtn, element(values, j)), valCount + 1, arity, values) :
                 j \in randInt(0, Len(values) - 1) }
    ELSE { rtn }

\* valCount once the while loop has topped the operands up to op.arity
valCountAfterWhile(valCount, op) == IF valCount < op.arity THEN op.arity ELSE valCount

\* a generator that forgets the slot the operator's own result fills
valCountAfterPushNoResult(valCount, op) == valCount - op.arity

\* rtn.push(op); valCount -= 1;
valCountAfterPush(valCount, op) == valCount - 1

RECURSIVE generateLoop(_, _, _, _, _, _)
generateLoop(i, ops, rtn, valCount, operators, values) ==
    IF i < ops
    THEN UNION { LET op == operators[o]
                     vc == valCountAfterPush(valCountAfterWhile(valCount, op), op)
                 IN  UNION { generateLoop(i + 1, ops, Append(r, op), vc, operators, values) :
                             r \in pushValues(rtn, valCount, op.arity, values) } :
                 o \in { k + 1 : k \in randInt(0, Len(operators) - 1) } }
    ELSE { rtn }

\* generateExpression(minOps, maxOps, values): every stack it can return
generateExpression(operators, minOps, maxOps, values) ==
    UNION { generateLoop(0, ops, <<>>, 0, operators, values) : ops \in randInt(minOps, maxOps) }

\* solve(expression): the value returned, the stack left behind, and whether
\* a pop found the stack empty (pop then yields undefined).  undefined is
\* NaN in the arithmetic of the operators and of check, so it is kept as NaN.
RECURSIVE solve(_)
RECURSIVE solveArgs(_, _, _, _)
solve(expression) ==
    IF Len(expression) = 0
    THEN [value |-> NaN, expression |-> <<>>, underflow |-> TRUE]
    ELSE LET exp == Last(expression) IN
         IF InstanceofOperator(exp)
         THEN LET r == solveArgs(exp.arity, Front(expression), <<>>, FALSE)
              IN  [value |-> Apply(exp.op, r.args), expression |-> r.expression,
                   underflow |-> r.underflow]
         ELSE [value |-> IF "literal" \in DOMAIN exp THEN Int2Num(exp.literal) ELSE NaN,
               expression |-> Front(expression), underflow |-> FALSE]
solveArgs(k, expression, args, underflow) ==
    IF k = 0
    THEN [args |-> args, expression |-> expression, underflow |-> underflow]
    ELSE LET r == solve(expression)
         IN  solveArgs(k - 1, r.expression, Append(args, r.value), underflow \/ r.underflow)

\* precedence(exp); expression[expression.length-1] of an empty stack is undefined
precedence(expression) ==
    IF Len(expression) > 0 /\ InstanceofOperator(Last(expression))
    THEN Last(expression).precedence
    ELSE 0

\* latex.replace(new RegExp('\\$'+i), sub): the first "$i" of latex replaced
RECURSIVE replaceFirst(_, _, _)
replaceFirst(latex, i, sub) ==
    IF Len(latex) = 0 THEN <<>>
    ELSE IF Head(latex) = "$" \o ToString(i) THEN sub \o Tail(latex)
    ELSE <<Head(latex)>> \o replaceFirst(Tail(latex), i, sub)

\* substitute(latex, subs)
RECURSIVE substituteFrom(_, _, _)
substituteFrom(latex, subs, i) ==
    IF i > Len(subs) THEN latex
    ELSE substituteFrom(replaceFirst(latex, i, subs[i]), subs, i + 1)
\* a substitution that fills $1 with the last argument
substituteReversed(latex, subs) ==
    substituteFrom(latex, [i \in DOMAIN subs |-> subs[Len(subs) + 1 - i]], 1)

substitute(latex, subs) == substituteFrom(latex, subs, 1)

\* a grouping test that ignores associativity
doGroupArgByPrecedenceOnly(exp, i, tp) ==
    exp.doGroup /\ i > 0 /\ tp # 0 /\ tp > exp.precedence

\* a grouping test that also wraps the first argument
doGroupArgAnyPosition(exp, i, tp) ==
    exp.doGroup /\ tp # 0 /\ (tp > exp.precedence \/ ~exp.associative)

\* the test of line 294: is argument i (0-based) wrapped in parentheses
doGroupArg(exp, i, tp) ==
    exp.doGroup /\ i > 0 /\ tp # 0 /\ (tp > exp.precedence \/ ~exp.associative)

\* latex(expression): the markup returned, the stack left behind, and whether
\* a pop found the stack empty
RECURSIVE latex(_)
RECURSIVE latexArgs(_, _, _, _, _)
latex(expression) ==
    IF Len(expression) = 0
    THEN [value |-> <<"undefined">>, expression |-> <<>>, underflow |-> TRUE]
    ELSE LET exp == Last(expression) IN
         IF InstanceofOperator(exp)
         THEN LET r == latexArgs(exp, 0, Front(expression), <<>>, FALSE)
              IN  [value |-> substitute(exp.latex, r.args), expression |-> r.expression,
                   underflow |-> r.underflow]
         ELSE [value |-> IF "literal" \in DOMAIN exp THEN <<ToString(exp.literal)>>
                         ELSE <<"undefined">>,
               expression |-> Front(expression), underflow |-> FALSE]
latexArgs(exp, i, expression, args, underflow) ==
    IF i >= exp.arity
    THEN [args |-> args, expression |-> expression, underflow |-> underflow]
    ELSE LET tp == precedence(expression)
             r == latex(expression)
             arg == IF doGroupArg(exp, i, tp)
                    THEN <<"(">> \o r.value \o <<")">>
                    ELSE r.value
         IN  latexArgs(exp, i + 1, r.expression, Append(args, arg), underflow \/ r.underflow)

(***************************************************************************)
(* State.                                                                  *)
(***************************************************************************)
VARIABLES
    options,    \* this.options: minOps, maxOps, values, path
    operators,  \* this.operators
    captchas,   \* this.captchas: the object's own properties
    timers,     \* the timeouts that are armed: [id, key]
    calls,      \* the generate calls made, each with its callback chain's position
    files,      \* the files on disk
    commands,   \* rm command lines handed to exec and not yet run
    ret,        \* what the last getImage or check call returned
    cleanups,   \* number of explicit cleanup calls made
    expr        \* expression runs: a generated stack, and solve's and latex's results on copies

vars == <<options, operators, captchas, timers, calls, files, commands, ret, cleanups, expr>>
managerVars == <<captchas, timers, calls, files, commands, ret, cleanups>>

(***************************************************************************)
(* Expression runs: generateExpression for a drawn configuration, then     *)
(* solve and latex each on its own copy ([].concat(exp)) of the stack.     *)
(***************************************************************************)
\* strictly increasing sequences over 0..MaxValue of 1..MaxPool values
Pools ==
    { v \in UNION { [1 .. n -> 0 .. MaxValue] : n \in 1 .. MaxPool } :
        \A i \in 1 .. Len(v) - 1 : v[i] < v[i + 1] }

Path == <<"/tmp/math-captcha">>

\* the options the manager is constructed with
InitOptions == [minOps |-> 1, maxOps |-> 1, values |-> <<2>>, path |-> Path]

NoRun == [exp |-> <<>>, generated |-> FALSE,
          solved |-> FALSE, answer |-> NaN, solveLeft |-> <<>>, solveUnderflow |-> FALSE,
          rendered |-> FALSE, latex |-> <<>>, latexLeft |-> <<>>, latexUnderflow |-> FALSE]

InitManager ==
    /\ operators = DefaultOperators
    /\ captchas = [k \in {} |-> Undefined]
    /\ timers = {}
    /\ calls = << >>
    /\ files = {}
    /\ commands = << >>
    /\ ret = NoReturn
    /\ cleanups = 0
    /\ expr = NoRun

InitExpr ==
    /\ \E minOps \in 1 .. MaxOpsBound, maxOps \in 1 .. MaxOpsBound, values \in Pools :
          /\ minOps <= maxOps
          /\ options = [minOps |-> minOps, maxOps |-> maxOps, values |-> values, path |-> Path]
    /\ InitManager

GenerateExpression ==
    /\ ~expr.generated
    /\ \E exp \in generateExpression(operators, options.minOps, options.maxOps, options.values) :
          expr' = [NoRun EXCEPT !.exp = exp, !.generated = TRUE]
    /\ UNCHANGED <<options, operators, managerVars>>

Solve ==
    /\ expr.generated
    /\ ~expr.solved
    /\ LET r == solve(expr.exp)
       IN  expr' = [expr EXCEPT !.solved = TRUE, !.answer = r.value,
                                !.solveLeft = r.expression, !.solveUnderflow = r.underflow]
    /\ UNCHANGED <<options, operators, managerVars>>

Latex ==
    /\ expr.generated
    /\ ~expr.rendered
    /\ LET r == latex(expr.exp)
       IN  expr' = [expr EXCEPT !.rendered = TRUE, !.latex = r.value,
                                !.latexLeft = r.expression, !.latexUnderflow = r.underflow]
    /\ UNCHANGED <<options, operators, managerVars>>

NextExpr == GenerateExpression \/ Solve \/ Latex

SpecExpr == InitExpr /\ [][NextExpr]_vars

(***************************************************************************)
(* Expression runs of a manager to whose operators the client has appended *)
(* operators of arity 1 and 3.                                             *)
(***************************************************************************)
Registries ==
    { DefaultOperators \o extra : extra \in { <<Negation>>, <<Sum3>>, <<Negation, Sum3>> } }

InitRegistry ==
    /\ \E minOps \in 1 .. MaxOpsBound, maxOps \in 1 .. MaxOpsBound, values \in { <<2>>, <<1, 2>> } :
          /\ minOps <= maxOps
          /\ options = [minOps |-> minOps, maxOps |-> maxOps, values |-> values, path |-> Path]
    /\ operators \in Registries
    /\ captchas = [k \in {} |-> Undefined]
    /\ timers = {}
    /\ calls = << >>
    /\ files = {}
    /\ commands = << >>
    /\ ret = NoReturn
    /\ cleanups = 0
    /\ expr = NoRun

SpecRegistry == InitRegistry /\ [][NextExpr]_vars

(***************************************************************************)
(* solve and latex called on any well-formed stack over the default        *)
(* operators, not only on those generateExpression builds.                 *)
(***************************************************************************)
StackValues == { 3, 4, 5 }

\* the well-formed stacks with exactly n operators
RECURSIVE StacksOf(_)
StacksOf(n) ==
    IF n = 0 THEN { <<Lit(v)>> : v \in StackValues }
    ELSE UNION { { x \o y \o <<DefaultOperators[o]>> :
                     x \in StacksOf(i), y \in StacksOf(n - 1 - i), o \in DOMAIN DefaultOperators } :
                 i \in 0 .. n - 1 }

Stacks == UNION { StacksOf(n) : n \in 0 .. MaxStackOps }

InitStacks ==
    /\ options = InitOptions
    /\ operators = DefaultOperators
    /\ captchas = [k \in {} |-> Undefined]
    /\ timers = {}
    /\ calls = << >>
    /\ files = {}
    /\ commands = << >>
    /\ ret = NoReturn
    /\ cleanups = 0
    /\ \E stack \in Stacks : expr = [NoRun EXCEPT !.exp = stack, !.generated = TRUE]

NextStacks == Solve \/ Latex

SpecStacks == InitStacks /\ [][NextStacks]_vars

(***************************************************************************)
(* The captcha manager.  A string is a sequence of tokens, so that + on    *)
(* strings is \o.  A value stored in this.captchas is a record (the        *)
(* tracking structure) or Undefined.                                       *)
(***************************************************************************)

\* The properties every object literal {} inherits from Object.prototype
\* (two of them stand for all): constructor is a data property, __proto__ an
\* accessor whose setter ignores a value that is neither an object nor null.
InheritedKeys == { <<"constructor">>, <<"__proto__">> }
Inherited(key) == [inherited |-> key]

\* this.captchas[key]
get(obj, key) ==
    IF key \in DOMAIN obj THEN obj[key]
    ELSE IF key \in InheritedKeys THEN Inherited(key)
    ELSE Undefined

\* this.captchas[key] = value
put(obj, key, value) ==
    IF key = <<"__proto__">> /\ value = Undefined THEN obj
    ELSE [k \in DOMAIN obj \cup {key} |-> IF k = key THEN value ELSE obj[k]]

\* value.name for a value that is an object
field(value, name) == IF name \in DOMAIN value THEN value[name] ELSE Undefined

\* if (this.captchas[key])
truthy(value) == value # Undefined

\* wrapLatex(math)
wrapLatex(math) ==
    <<"\\documentclass[12pt]{article}\n\\usepackage{amsmath}\n\\pagestyle{empty}\n\n\\begin{document}\n\n\\begin{displaymath}\n">>
    \o math \o <<"\n\\end{displaymath}\n\n\\end{document}">>

\* hash.update(latex, 'utf8'); hash.digest('hex'): the digest of a document,
\* taken to be free of collisions
md5hex(document) == <<"md5(">> \o document \o <<")">>

\* this.options.path + '/' + key
filePath(key) == options.path \o <<"/">> \o key

Extensions == <<".tex", ".aux", ".dvi", ".png", ".log">>

\* Array.prototype.toString: the elements joined by commas
RECURSIVE arrayToString(_)
arrayToString(array) ==
    IF Len(array) = 0 THEN << >>
    ELSE IF Len(array) = 1 THEN array[1]
    ELSE array[1] \o <<",">> \o arrayToString(Tail(array))

\* 'rm ' + _.map(['.tex', '.aux', '.dvi', '.png', '.log'], ...)
rmCommand(key) ==
    <<"rm", " ">> \o arrayToString([i \in DOMAIN Extensions |-> filePath(key) \o <<Extensions[i]>>])

\* the words the shell splits a command line into, at its spaces
shellWords(command) ==
    LET starts == { i \in DOMAIN command :
                      command[i] # " " /\ (i = 1 \/ command[i - 1] = " ") }
        start(k) == CHOOSE i \in starts : Cardinality({ j \in starts : j < i }) = k - 1
        end(i) == CHOOSE e \in i .. Len(command) :
                      /\ \A j \in i .. e : command[j] # " "
                      /\ e = Len(command) \/ command[e + 1] = " "
    IN  [k \in 1 .. Cardinality(starts) |-> SubSeq(command, start(k), end(start(k)))]

\* clearTimeout(handler)
clearTimeout(armed, handler) == { t \in armed : [timeout |-> t.id] # handler }

\* the keys a client may hand in: digests generate can derive, inherited
\* property names, and a string that is neither
Documents ==
    { wrapLatex(latex(e).value) :
        e \in generateExpression(DefaultOperators, options.minOps, options.maxOps, options.values) }
ClientKeys == { md5hex(d) : d \in Documents } \cup InheritedKeys \cup { <<"0cc175b9c0f1b6a8">> }

\* a call made on the array itself: the array is what the call left of it
afterCallInPlace(array, result) == result.expression

\* the array after a call made on [].concat(array): the call popped the
\* tokens of the copy, the array itself is as it was
afterCallOnCopy(array, result) == array

\* the tracking structure of lines 69-74, built from exp as lines 61-62
\* leave it
tracking(exp) ==
    LET rendered == latex(exp)
        exp1 == afterCallOnCopy(exp, rendered)
        solved == solve(exp1)
        exp2 == afterCallOnCopy(exp1, solved)
        document == wrapLatex(rendered.value)
        key == md5hex(document)
    IN  [exp |-> exp2, latex |-> document, answer |-> solved.value,
         file |-> filePath(key) \o <<".png">>]

\* generate(success, failure), lines 60-83: the structure is stored and
\* fs.writeFile is called
Generate ==
    /\ Len(calls) < MaxCalls
    /\ \E exp \in generateExpression(operators, options.minOps, options.maxOps, options.values) :
          LET key == md5hex(wrapLatex(latex(exp).value))
          IN  /\ captchas' = put(captchas, key, tracking(exp))
              /\ calls' = Append(calls, [key |-> key, stages |-> <<"writeFile">>,
                                         pending |-> "writeFile", success |-> << >>,
                                         failure |-> << >>, threw |-> FALSE])
    /\ ret' = NoReturn
    /\ UNCHANGED <<options, operators, timers, files, commands, cleanups, expr>>

\* a failing stage that reports the error and leaves the structure in the map
stageFailedKeepsRecord(c, stage) ==
    /\ UNCHANGED captchas
    /\ calls' = [calls EXCEPT ![c].pending = "none",
                              ![c].failure = Append(@, stage)]

\* a failing stage that reports the error and lets the stage call back again
stageFailedStillPending(c, stage) ==
    /\ captchas' = put(captchas, calls[c].key, Undefined)
    /\ calls' = [calls EXCEPT ![c].failure = Append(@, stage)]

\* a stage's callback found err set: that.captchas[key] = undefined; failure(err);
stageFailed(c, stage) ==
    /\ captchas' = put(captchas, calls[c].key, Undefined)
    /\ calls' = [calls EXCEPT ![c].pending = "none",
                              ![c].failure = Append(@, stage)]

\* the callback of fs.writeFile, lines 83-90
WriteFileDone(c, err) ==
    /\ c \in DOMAIN calls
    /\ calls[c].pending = "writeFile"
    /\ IF err
       THEN /\ stageFailed(c, "writeFile")
            /\ UNCHANGED files
       ELSE /\ files' = files \cup { filePath(calls[c].key) \o <<".tex">> }
            /\ calls' = [calls EXCEPT ![c].pending = "tex", ![c].stages = Append(@, "tex")]
            /\ UNCHANGED captchas
    /\ ret' = NoReturn
    /\ UNCHANGED <<options, operators, timers, commands, cleanups, expr>>

\* the callback of exec(texcmd), lines 90-96
TexDone(c, err) ==
    /\ c \in DOMAIN calls
    /\ calls[c].pending = "tex"
    /\ IF err
       THEN /\ stageFailed(c, "tex")
            /\ UNCHANGED files
       ELSE /\ files' = files \cup { filePath(calls[c].key) \o <<e>> : e \in {".aux", ".dvi", ".log"} }
            /\ calls' = [calls EXCEPT ![c].pending = "dvipng", ![c].stages = Append(@, "dvipng")]
            /\ UNCHANGED captchas
    /\ ret' = NoReturn
    /\ UNCHANGED <<options, operators, timers, commands, cleanups, expr>>

\* a success branch that reports success and arms no timeout
armAndReportNoTimeout(c) ==
    LET key == calls[c].key
    IN  IF get(captchas, key) = Undefined
        THEN /\ calls' = [calls EXCEPT ![c].pending = "none", ![c].threw = TRUE]
             /\ UNCHANGED <<captchas, timers>>
        ELSE /\ captchas' = put(captchas, key,
                   [k \in DOMAIN captchas[key] \cup {"handler"} |->
                       IF k = "handler" THEN [timeout |-> c] ELSE captchas[key][k]])
             /\ UNCHANGED timers
             /\ calls' = [calls EXCEPT ![c].pending = "none", ![c].success = Append(@, key)]

\* that.captchas[key].handler = setTimeout(...); success(key);  (lines 102-103)
\* With that.captchas[key] undefined the assignment throws a TypeError and
\* success is not called; whether setTimeout has run by then depends on the
\* engine's evaluation order, so both outcomes are possible.
armAndReport(c) ==
    LET key == calls[c].key
        timer == [id |-> c, key |-> key]
    IN  IF get(captchas, key) = Undefined
        THEN /\ calls' = [calls EXCEPT ![c].pending = "none", ![c].threw = TRUE]
             /\ timers' \in { timers, timers \cup {timer} }
             /\ UNCHANGED captchas
        ELSE /\ captchas' = put(captchas, key,
                   [k \in DOMAIN captchas[key] \cup {"handler"} |->
                       IF k = "handler" THEN [timeout |-> c] ELSE captchas[key][k]])
             /\ timers' = timers \cup {timer}
             /\ calls' = [calls EXCEPT ![c].pending = "none", ![c].success = Append(@, key)]

\* the callback of exec(dvipngcmd), lines 96-104
DvipngDone(c, err) ==
    /\ c \in DOMAIN calls
    /\ calls[c].pending = "dvipng"
    /\ IF err
       THEN /\ stageFailed(c, "dvipng")
            /\ UNCHANGED <<files, timers>>
       ELSE /\ files' = files \cup { filePath(calls[c].key) \o <<".png">> }
            /\ armAndReport(c)
    /\ ret' = NoReturn
    /\ UNCHANGED <<options, operators, commands, cleanups, expr>>

\* the body of cleanup(key), lines 147-153, run with the timeouts armed
cleanup(key, armed) ==
    IF truthy(get(captchas, key))
    THEN /\ timers' = clearTimeout(armed, field(get(captchas, key), "handler"))
         /\ captchas' = put(captchas, key, Undefined)
         /\ commands' = Append(commands, rmCommand(key))
    ELSE /\ timers' = armed
         /\ UNCHANGED <<captchas, commands>>

\* cleanup(key) called by the client
Cleanup(key) ==
    /\ cleanups < MaxCleanups
    /\ cleanups' = cleanups + 1
    /\ cleanup(key, timers)
    /\ ret' = NoReturn
    /\ UNCHANGED <<options, operators, calls, files, expr>>

\* a timeout expires: _.bind(that.cleanup, that, key) runs
TimerFires(t) ==
    /\ t \in timers
    /\ cleanup(t.key, timers \ {t})
    /\ ret' = NoReturn
    /\ UNCHANGED <<options, operators, calls, files, cleanups, expr>>

\* the rm process started by exec runs: it unlinks each of its operands
RmRuns ==
    /\ Len(commands) > 0
    /\ LET words == shellWords(Head(commands))
       IN  files' = files \ { words[i] : i \in 2 .. Len(words) }
    /\ commands' = Tail(commands)
    /\ ret' = NoReturn
    /\ UNCHANGED <<options, operators, captchas, timers, calls, cleanups, expr>>

\* a getImage that hands the path out only once the timeout is armed
getImageWhenReady(key) ==
    IF truthy(get(captchas, key)) /\ "handler" \in DOMAIN get(captchas, key)
    THEN String(get(captchas, key).file)
    ELSE Null

\* getImage(key), lines 117-122
getImage(key) ==
    IF truthy(get(captchas, key))
    THEN (IF "file" \in DOMAIN get(captchas, key)
          THEN String(get(captchas, key).file)
          ELSE Undefined)
    ELSE Null

GetImage(key) ==
    /\ ret = NoReturn
    /\ ret' = [op |-> "getImage", key |-> key, value |-> getImage(key)]
    /\ UNCHANGED <<options, operators, captchas, timers, calls, files, commands, cleanups, expr>>

\* this.captchas[key].answer as a number: undefined * shift is NaN
toNumber(value) == IF value = Undefined THEN NaN ELSE value

\* check(key, answer, places), lines 132-140
check(key, answer, places) ==
    IF truthy(get(captchas, key))
    THEN LET shift == MathPow10(places)
             rounded == MathRound(NumMul(toNumber(field(get(captchas, key), "answer")), shift))
             adjusted == MathRound(NumMul(answer, shift))
         IN  NumEq(adjusted, rounded)
    ELSE FALSE

\* the answers clients send
Answers ==
    { Int2Num(4), Int2Num(5), Frac(7, 2, FALSE), Frac(81, 20, FALSE), NaN }

\* a check that uses the record up
CheckConsumes(key, answer, places) ==
    /\ ret = NoReturn
    /\ ret' = [op |-> "check", key |-> key, answer |-> answer, places |-> places,
               value |-> Boolean(check(key, answer, places))]
    /\ captchas' = IF truthy(get(captchas, key)) THEN put(captchas, key, Undefined) ELSE captchas
    /\ UNCHANGED <<options, operators, timers, calls, files, commands, cleanups, expr>>

Check(key, answer, places) ==
    /\ ret = NoReturn
    /\ ret' = [op |-> "check", key |-> key, answer |-> answer, places |-> places,
               value |-> Boolean(check(key, answer, places))]
    /\ UNCHANGED <<options, operators, captchas, timers, calls, files, commands, cleanups, expr>>

Init ==
    /\ options = InitOptions
    /\ InitManager

Next ==
    \/ Generate
    \/ \E c \in 1 .. MaxCalls, err \in BOOLEAN : WriteFileDone(c, err)
    \/ \E c \in 1 .. MaxCalls, err \in BOOLEAN : TexDone(c, err)
    \/ \E c \in 1 .. MaxCalls, err \in BOOLEAN : DvipngDone(c, err)
    \/ \E key \in ClientKeys : Cleanup(key)
    \/ \E t \in timers : TimerFires(t)
    \/ RmRuns

Spec == Init /\ [][Next]_vars

\* The same manager when every stage that was started calls back and every
\* timeout that is armed expires.
Timeouts ==
    { [id |-> c, key |-> md5hex(wrapLatex(latex(e).value))] :
        c \in 1 .. MaxCalls,
        e \in generateExpression(DefaultOperators, InitOptions.minOps, InitOptions.maxOps,
                                 InitOptions.values) }

Fairness ==
    /\ \A c \in 1 .. MaxCalls :
          /\ WF_vars(\E err \in BOOLEAN : WriteFileDone(c, err))
          /\ WF_vars(\E err \in BOOLEAN : TexDone(c, err))
          /\ WF_vars(\E err \in BOOLEAN : DvipngDone(c, err))
    /\ \A t \in Timeouts : WF_vars(TimerFires(t))

SpecLive == Init /\ [][Next]_vars /\ Fairness

\* The manager constructed with any options, those the generator is not
\* meant for included: an empty values array, minOps > maxOps, minOps < 1.
ConfigPools == { << >>, <<2>> }

InitConfig ==
    /\ \E minOps \in 0 .. MaxOpsBound, maxOps \in 0 .. MaxOpsBound, values \in ConfigPools :
          options = [minOps |-> minOps, maxOps |-> maxOps, values |-> values, path |-> Path]
    /\ InitManager

NextConfig ==
    \/ Generate /\ Len(calls) < MaxClientCalls
    \/ \E c \in 1 .. MaxClientCalls, err \in BOOLEAN : WriteFileDone(c, err)
    \/ \E c \in 1 .. MaxClientCalls, err \in BOOLEAN : TexDone(c, err)
    \/ \E c \in 1 .. MaxClientCalls, err \in BOOLEAN : DvipngDone(c, err)
    \/ \E t \in timers : TimerFires(t)
    \/ RmRuns

SpecConfig == InitConfig /\ [][NextConfig]_vars

\* The manager with a client that also queries it: the same steps, for runs
\* of at most MaxClientCalls generate calls and MaxClientCleanups cleanup
\* calls, and getImage and check calls on any key.
ClientScope == Len(calls) <= MaxClientCalls /\ cleanups <= MaxClientCleanups

NextClient ==
    \/ Generate /\ ClientScope'
    \/ \E c \in 1 .. MaxClientCalls, err \in BOOLEAN : WriteFileDone(c, err)
    \/ \E c \in 1 .. MaxClientCalls, err \in BOOLEAN : TexDone(c, err)
    \/ \E c \in 1 .. MaxClientCalls, err \in BOOLEAN : DvipngDone(c, err)
    \/ \E key \in ClientKeys : Cleanup(key) /\ ClientScope'
    \/ \E t \in timers : TimerFires(t)
    \/ RmRuns
    \/ \E key \in ClientKeys : GetImage(key)
    \/ \E key \in ClientKeys, answer \in Answers, places \in 0 .. MaxPlaces :
          Check(key, answer, places)

SpecClient == Init /\ [][NextClient]_vars

(***************************************************************************)
(* Reading markup back: sums of products of atoms, + and - and \times      *)
(* associating to the left, \times binding tighter than + and -, an atom   *)
(* a number, a parenthesised sum or a fraction of two braced sums.         *)
(***************************************************************************)
Unreadable == [ok |-> FALSE, value |-> NaN, rest |-> << >>]
Starts(t, tok) == Len(t) > 0 /\ Head(t) = tok
\* the numbers that occur as literals in the stacks of the runs
Numerals == (0 .. MaxValue) \cup StackValues
IsNumeral(tok) == \E v \in Numerals : ToString(v) = tok
NumeralValue(tok) == CHOOSE v \in Numerals : ToString(v) = tok

RECURSIVE ReadSum(_)
RECURSIVE ReadSumRest(_, _)
RECURSIVE ReadProduct(_)
RECURSIVE ReadProductRest(_, _)
RECURSIVE ReadAtom(_)
ReadAtom(t) ==
    IF Starts(t, "(")
    THEN LET r == ReadSum(Tail(t))
         IN  IF r.ok /\ Starts(r.rest, ")")
             THEN [ok |-> TRUE, value |-> r.value, rest |-> Tail(r.rest)]
             ELSE Unreadable
    ELSE IF Starts(t, "\\frac{")
    THEN LET a == ReadSum(Tail(t))
         IN  IF a.ok /\ Starts(a.rest, "}{")
             THEN LET b == ReadSum(Tail(a.rest))
                  IN  IF b.ok /\ Starts(b.rest, "}")
                      THEN [ok |-> TRUE, value |-> NumDiv(a.value, b.value), rest |-> Tail(b.rest)]
                      ELSE Unreadable
             ELSE Unreadable
    ELSE IF Len(t) > 0 /\ IsNumeral(Head(t))
    THEN [ok |-> TRUE, value |-> Int2Num(NumeralValue(Head(t))), rest |-> Tail(t)]
    ELSE Unreadable
ReadProductRest(acc, t) ==
    IF Starts(t, "\\times")
    THEN LET b == ReadAtom(Tail(t))
         IN  IF b.ok THEN ReadProductRest(NumMul(acc, b.value), b.rest) ELSE Unreadable
    ELSE [ok |-> TRUE, value |-> acc, rest |-> t]
ReadProduct(t) ==
    LET a == ReadAtom(t)
    IN  IF a.ok THEN ReadProductRest(a.value, a.rest) ELSE Unreadable
ReadSumRest(acc, t) ==
    IF Starts(t, "+") \/ Starts(t, "-")
    THEN LET b == ReadProduct(Tail(t))
         IN  IF b.ok
             THEN ReadSumRest(IF Head(t) = "+" THEN NumAdd(acc, b.value) ELSE NumSub(acc, b.value),
                              b.rest)
             ELSE Unreadable
    ELSE [ok |-> TRUE, value |-> acc, rest |-> t]
ReadSum(t) ==
    LET a == ReadProduct(t)
    IN  IF a.ok THEN ReadSumRest(a.value, a.rest) ELSE Unreadable
ReadMarkup(t) ==
    LET r == ReadSum(t)
    IN  IF r.ok /\ r.rest = << >> THEN r ELSE Unreadable

\* Operand slots still to be filled after consuming the last k tokens of a
\* stack from its end: 1 before any token, each token fills one slot and an
\* operator opens arity more.  -1 once a token is consumed with no slot open.
RECURSIVE SlotsAfter(_, _)
SlotsAfter(stack, k) ==
    IF k = 0 THEN 1
    ELSE LET before == SlotsAfter(stack, k - 1)
             tok == stack[Len(stack) - k + 1]
         IN  IF before <= 0 THEN -1
             ELSE before - 1 + (IF InstanceofOperator(tok) THEN tok.arity ELSE 0)

OperatorCount(stack) == Cardinality({ i \in DOMAIN stack : InstanceofOperator(stack[i]) })

\* C4: every stack generateExpression returns for a valid configuration and
\* the default registry is well-formed: consumed from the end it never needs
\* a token that is not there and leaves no token over, and solve on a copy
\* pops no empty stack, returns one value and leaves the copy empty.
C4_WellFormed ==
    /\ expr.generated =>
          /\ Len(expr.exp) > 0
          /\ \A k \in 1 .. Len(expr.exp) - 1 : SlotsAfter(expr.exp, k) > 0
          /\ SlotsAfter(expr.exp, Len(expr.exp)) = 0
    /\ expr.solved =>
          /\ ~expr.solveUnderflow
          /\ expr.solveLeft = << >>

C4_Witness ==
    /\ expr.solved
    /\ OperatorCount(expr.exp) = 2
    /\ Len(expr.exp) = 5
    /\ expr.solveLeft = << >>
    /\ ~expr.solveUnderflow

\* C5: the markup latex returns for a generated stack, read with the usual
\* precedence, its parentheses and its fraction braces, denotes the value
\* solve returns for the same stack.
C5_RenderAgreesWithSolve ==
    (expr.solved /\ expr.rendered) =>
        /\ ReadMarkup(expr.latex).ok
        /\ ReadMarkup(expr.latex).value = expr.answer

C5_Witness ==
    /\ expr.solved
    /\ expr.rendered
    /\ \E i \in DOMAIN expr.latex : expr.latex[i] = "("
    /\ \E i \in DOMAIN expr.latex : expr.latex[i] = "\\frac{"
    /\ ReadMarkup(expr.latex).value = expr.answer
    /\ IsFinite(expr.answer)

(***************************************************************************)
(* The manager's claims.                                                   *)
(***************************************************************************)
\* a structure is stored under key: generate put it there and neither a
\* failing stage nor cleanup has replaced it by undefined
Stored(map, key) == key \in DOMAIN map /\ map[key] # Undefined
Pending(map, key) == Stored(map, key) /\ "handler" \notin DOMAIN map[key]
Ready(map, key) == Stored(map, key) /\ "handler" \in DOMAIN map[key]
ImagePath(key) == filePath(key) \o <<".png">>
ArtifactPaths(key) == [i \in DOMAIN Extensions |-> filePath(key) \o <<Extensions[i]>>]
\* the step ran the body of cleanup(key): one more rm command, for key
CleanupRan(key) ==
    /\ Len(commands') = Len(commands) + 1
    /\ Last(commands') = rmCommand(key)

\* C1: when the dvipng stage of a call, the last of its three, succeeds,
\* success(key) is reported, the record of key is in the map and a timeout
\* of that call is armed.
C1_SuccessReported ==
    [][\A c \in DOMAIN calls :
          (calls[c].pending = "dvipng" /\ calls'[c].pending = "none" /\ calls'[c].failure = << >>)
          => /\ calls'[c].success = <<calls[c].key>>
             /\ ~calls'[c].threw
             /\ Stored(captchas', calls[c].key)
             /\ \E t \in timers' : t.id = c /\ t.key = calls[c].key]_vars

\* C2: when a stage of a call fails, failure is reported once with that
\* stage's error and success is not, the call starts no further stage (then
\* or later), and the map holds no record under the call's key.
C2_StageFailureAborts ==
    /\ [](\A c \in DOMAIN calls :
            calls[c].failure # << >>
            => /\ calls[c].pending = "none"
               /\ calls[c].failure = <<Last(calls[c].stages)>>
               /\ calls[c].success = << >>
               /\ ~calls[c].threw)
    /\ [][\A c \in DOMAIN calls :
            (calls[c].failure = << >> /\ calls'[c].failure # << >>)
            => /\ calls'[c].failure = <<calls[c].pending>>
               /\ calls'[c].stages = calls[c].stages
               /\ get(captchas', calls[c].key) = Undefined
               /\ ~Stored(captchas', calls[c].key)]_vars

C2_Witness ==
    \E c \in DOMAIN calls :
        /\ calls[c].failure = <<"tex">>
        /\ calls[c].stages = <<"writeFile", "tex">>
        /\ calls[c].key \in DOMAIN captchas
        /\ captchas[calls[c].key] = Undefined

\* x * 10^places lies in [n - 1/2, n + 1/2), the numbers Math.round takes to n
RoundsTo(x, places, n) ==
    /\ IsFinite(x)
    /\ (2 * n - 1) * Abs(x.d) <= 2 * x.n * Pow10(places)
    /\ 2 * x.n * Pow10(places) < (2 * n + 1) * Abs(x.d)
RoundRange == (-6 * Pow10(MaxPlaces)) .. (6 * Pow10(MaxPlaces))
SameRounding(x, y, places) ==
    \/ IsInf(x) /\ x = y
    \/ \E n \in RoundRange : RoundsTo(x, places, n) /\ RoundsTo(y, places, n)

\* C3: check on a key with a stored record returns true exactly when the
\* stored answer and the answer sent, each scaled by 10^places, round to the
\* same integer; for the record of 2 + 2, check(key, 4, 0) is true and
\* check(key, 5, 0) is false.
C3_CheckRounds ==
    (ret.op = "check" /\ Stored(captchas, ret.key)) =>
        /\ ret.value = Boolean(SameRounding(captchas[ret.key].answer, ret.answer, ret.places))
        /\ (captchas[ret.key].exp = <<Lit(2), Lit(2), Addition>> /\ ret.places = 0) =>
              /\ ret.answer = Int2Num(4) => ret.value = Boolean(TRUE)
              /\ ret.answer = Int2Num(5) => ret.value = Boolean(FALSE)

C3_Witness ==
    /\ ret.op = "check"
    /\ Stored(captchas, ret.key)
    /\ captchas[ret.key].exp = <<Lit(2), Lit(2), Addition>>
    /\ ret.answer = Frac(7, 2, FALSE)
    /\ ret.places = 0
    /\ ret.value = Boolean(TRUE)

\* C6 as stated: getImage returns null for a key that is unknown or whose
\* record is still Pending, and the image path only for a Ready record.
\* (Stated for the keys that name no inherited property; those are C10's.)
C6_NullUntilReady ==
    (ret.op = "getImage" /\ ret.key \notin InheritedKeys) =>
        IF Ready(captchas, ret.key)
        THEN ret.value = String(ImagePath(ret.key))
        ELSE ret.value = Null

\* C6 as amended: getImage returns the image path of the record stored under
\* key from the moment generate stores it, Pending or Ready; it returns null
\* only when no record is stored under key, and it does return null for
\* every key generate can derive under which no record is stored.
C6_PathOnceStored ==
    ret.op = "getImage" =>
        /\ Stored(captchas, ret.key) => ret.value = String(ImagePath(ret.key))
        /\ ret.value = Null => ~Stored(captchas, ret.key)
        /\ (ret.key \in { md5hex(d) : d \in Documents } /\ ~Stored(captchas, ret.key))
              => ret.value = Null

C6_Witness ==
    /\ ret.op = "getImage"
    /\ Pending(captchas, ret.key)
    /\ \E c \in DOMAIN calls : calls[c].key = ret.key /\ calls[c].pending = "tex"
    /\ ret.value = String(ImagePath(ret.key))

\* C7: a cleanup call on a key under which no record is stored (it never
\* was, or a first cleanup or the timeout removed it) hands no rm command to
\* exec and leaves the map and the armed timeouts as they are.
C7_CleanupIdempotent ==
    [][\A key \in ClientKeys :
          (Cleanup(key) /\ ~Stored(captchas, key))
          => UNCHANGED <<captchas, timers, commands>>]_vars

\* C8: once cleanup has run for a key with a stored record, the record is
\* gone and no timeout for that key is armed.
C8_CleanupCancelsTimer ==
    [][\A key \in ClientKeys :
          (CleanupRan(key) /\ Stored(captchas, key))
          => /\ ~Stored(captchas', key)
             /\ \A t \in timers' : t.key # key]_vars

\* C9: the rm command of cleanup(key) has the five artifact paths of key as
\* five operands, and when it has run none of the five is on disk.
C9_RmRemovesArtifacts ==
    [][\A key \in ClientKeys :
          (Len(commands) > 0 /\ Head(commands) = rmCommand(key) /\ commands' = Tail(commands))
          => /\ shellWords(Head(commands)) = << <<"rm">> >> \o ArtifactPaths(key)
             /\ \A i \in DOMAIN Extensions : ArtifactPaths(key)[i] \notin files']_vars

\* C10: for a key under which no record is stored, getImage returns null,
\* check returns false, and cleanup changes nothing.
C10_UnknownKeyDegrades ==
    [][/\ (ret'.op = "getImage" /\ ~Stored(captchas, ret'.key)) => ret'.value = Null
       /\ (ret'.op = "check" /\ ~Stored(captchas, ret'.key)) => ret'.value = Boolean(FALSE)
       /\ \A key \in ClientKeys :
             (Cleanup(key) /\ ~Stored(captchas, key))
             => UNCHANGED <<captchas, timers, calls, files, commands>>]_vars

(***************************************************************************)
(* Expiry.                                                                 *)
(***************************************************************************)
\* the record stored under the key of call c is the one call c made Ready
ReadyBy(c) ==
    /\ c \in DOMAIN calls
    /\ Ready(captchas, calls[c].key)
    /\ captchas[calls[c].key].handler = [timeout |-> c]

\* C11: when every started stage calls back and every armed timeout expires,
\* a record that a call has made Ready is eventually gone from the map (no
\* record is stored under its key), whether or not cleanup is ever called.
C11_ReadyEventuallyRemoved ==
    \A c \in 1 .. MaxCalls :
        ReadyBy(c) ~> (c \in DOMAIN calls /\ ~Stored(captchas, calls[c].key))

\* a record was made Ready and expired with no explicit cleanup call: the
\* timeout ran cleanup, which queued the rm command
C11_Witness ==
    /\ cleanups = 0
    /\ Len(calls) = 1
    /\ calls[1].success = <<calls[1].key>>
    /\ ~Stored(captchas, calls[1].key)
    /\ timers = {}
    /\ commands = <<rmCommand(calls[1].key)>>

(***************************************************************************)
(* Configurations.                                                         *)
(***************************************************************************)
ValidConfig(o) == 1 <= o.minOps /\ o.minOps <= o.maxOps /\ Len(o.values) > 0

\* C12: a generate call on a manager whose configuration is invalid (empty
\* values, minOps > maxOps or minOps < 1) reports failure, starts no stage
\* and stores no record.
C12_InvalidConfigFails ==
    [][(~ValidConfig(options) /\ Len(calls') = Len(calls) + 1)
          => /\ Last(calls').failure # << >>
             /\ Last(calls').stages = << >>
             /\ captchas' = captchas]_vars

(***************************************************************************)
(* Grouping.                                                               *)
(***************************************************************************)
\* the number of tokens, counted from the end of stack, that make up the
\* complete expression on top of it
TopLen(stack) == CHOOSE k \in 1 .. Len(stack) :
                     /\ SlotsAfter(stack, k) = 0
                     /\ \A j \in 1 .. k - 1 : SlotsAfter(stack, j) # 0

\* the n operand stacks on top of stack, the one popped first first
RECURSIVE OperandStacks(_, _)
OperandStacks(stack, n) ==
    IF n = 0 THEN << >>
    ELSE LET k == TopLen(stack)
         IN  <<SubSeq(stack, Len(stack) - k + 1, Len(stack))>>
             \o OperandStacks(SubSeq(stack, 1, Len(stack) - k), n - 1)

\* the grouping rule as stated: position i counted from 0 in pop order
Parenthesized(op, i, sub) ==
    /\ op.doGroup
    /\ i # 0
    /\ InstanceofOperator(Last(sub))
    /\ (Last(sub).precedence > op.precedence \/ ~op.associative)

\* the template with the token $k replaced by args[k]
RECURSIVE Fill(_, _)
Fill(template, args) ==
    IF Len(template) = 0 THEN << >>
    ELSE (IF \E k \in DOMAIN args : Head(template) = "$" \o ToString(k)
          THEN args[CHOOSE k \in DOMAIN args : Head(template) = "$" \o ToString(k)]
          ELSE <<Head(template)>>)
         \o Fill(Tail(template), args)

\* the markup of a well-formed stack under the grouping rule as stated
RECURSIVE MarkupByRule(_)
MarkupByRule(stack) ==
    LET op == Last(stack) IN
    IF ~InstanceofOperator(op) THEN <<ToString(op.literal)>>
    ELSE LET subs == OperandStacks(Front(stack), op.arity)
             arg(i) == IF Parenthesized(op, i - 1, subs[i])
                       THEN <<"(">> \o MarkupByRule(subs[i]) \o <<")">>
                       ELSE MarkupByRule(subs[i])
         IN  Fill(op.latex, [i \in 1 .. op.arity |-> arg(i)])

\* C13: latex wraps the operand at position i of op in parentheses exactly
\* when op groups, i is not the first position, the operand is an operator
\* and (its precedence is greater than op's or op is not associative); so
\* 3 - (4 - 5) keeps its parentheses, (3 - 4) - 5 gets none, a literal is
\* never wrapped and division wraps no operand.
C13_GroupingRule ==
    expr.rendered =>
        /\ expr.latex = MarkupByRule(expr.exp)
        /\ expr.exp = <<Lit(5), Lit(4), Subtraction, Lit(3), Subtraction>>
              => expr.latex = <<"3", "-", "(", "4", "-", "5", ")">>
        /\ expr.exp = <<Lit(5), Lit(4), Lit(3), Subtraction, Subtraction>>
              => expr.latex = <<"3", "-", "4", "-", "5">>
        /\ OperatorCount(expr.exp) <= 1 => \A i \in DOMAIN expr.latex : expr.latex[i] # "("
        /\ Last(expr.exp) = Division
              => /\ expr.latex[2] # "("
                 /\ \A i \in DOMAIN expr.latex : expr.latex[i] = "}{" => expr.latex[i + 1] # "("

C13_Witness ==
    /\ expr.rendered
    /\ expr.exp = <<Lit(5), Lit(4), Subtraction, Lit(3), Subtraction>>
    /\ expr.latex = <<"3", "-", "(", "4", "-", "5", ")">>

(***************************************************************************)
(* Division.                                                               *)
(***************************************************************************)
\* solving the well-formed stack divides by a zero somewhere
RECURSIVE DividesByZero(_)
DividesByZero(stack) ==
    LET op == Last(stack) IN
    /\ InstanceofOperator(op)
    /\ LET subs == OperandStacks(Front(stack), op.arity)
       IN  \/ \E i \in DOMAIN subs : DividesByZero(subs[i])
           \/ op = Division /\ IsZero(solve(subs[2]).value)

\* C14: with a values pool that holds no zero, solving a generated stack
\* divides by no zero and the answer is a finite number.
C14_NoZeroDivisor ==
    (expr.solved /\ \A i \in DOMAIN options.values : options.values[i] # 0) =>
        /\ ~DividesByZero(expr.exp)
        /\ IsFinite(expr.answer)

(***************************************************************************)
(* The pipeline of one call.                                               *)
(***************************************************************************)
StageOrder == <<"writeFile", "tex", "dvipng">>

\* C15: the stages a call has started are a prefix of writeFile, tex,
\* dvipng, at most the last of them is still running, and a stage is started
\* only in the step in which the stage before it completes without error.
C15_StagesSequential ==
    /\ [](\A c \in DOMAIN calls :
            /\ Len(calls[c].stages) \in 1 .. Len(StageOrder)
            /\ calls[c].stages = SubSeq(StageOrder, 1, Len(calls[c].stages))
            /\ calls[c].pending \in {"none", Last(calls[c].stages)})
    /\ [][\A c \in DOMAIN calls :
            calls'[c].stages # calls[c].stages
            => /\ Len(calls[c].stages) < Len(StageOrder)
               /\ calls'[c].stages = Append(calls[c].stages, StageOrder[Len(calls[c].stages) + 1])
               /\ calls[c].pending = Last(calls[c].stages)
               /\ calls'[c].pending = Last(calls'[c].stages)
               /\ calls[c].failure = << >>
               /\ calls'[c].failure = << >>]_vars

C15_Witness ==
    \E c \in DOMAIN calls :
        /\ calls[c].stages = StageOrder
        /\ calls[c].pending = "none"
        /\ calls[c].success = <<calls[c].key>>

(***************************************************************************)
(* Operators of any arity.                                                 *)
(***************************************************************************)
\* C16: with operators of arity 1 and 3 appended to the operator list,
\* every stack generateExpression returns for a valid configuration is
\* well-formed (as it would be were the operand count lowered by arity - 1
\* at each operator pushed): consumed from the end it never needs a token
\* that is not there and leaves none over, and solve pops no empty stack
\* and leaves nothing on the stack.
C16_AnyArityWellFormed ==
    /\ expr.generated =>
          /\ Len(expr.exp) > 0
          /\ \A k \in 1 .. Len(expr.exp) - 1 : SlotsAfter(expr.exp, k) > 0
          /\ SlotsAfter(expr.exp, Len(expr.exp)) = 0
    /\ expr.solved =>
          /\ ~expr.solveUnderflow
          /\ expr.solveLeft = << >>

(***************************************************************************)
(* Calls that derive the same key.                                         *)
(***************************************************************************)
\* the timeout armed by call c
TimeoutOf(c) == [id |-> c, key |-> calls[c].key]

\* C17: while success has been reported for call c and the timeout armed by
\* it has neither expired nor been cleared, a record stays stored under the
\* key: only an explicit cleanup(key) or that timeout's expiry removes it,
\* not the failure of another call that derived the same key.
C17_ReadyStaysTracked ==
    [][\A c \in DOMAIN calls :
          (/\ calls[c].success # << >>
           /\ TimeoutOf(c) \in timers
           /\ Stored(captchas, calls[c].key)
           /\ ~Stored(captchas', calls[c].key))
          => \/ Cleanup(calls[c].key)
             \/ TimerFires(TimeoutOf(c))]_vars

\* C18: a call invokes success and failure at most once between them at any
\* time, and a call whose stages have all called back has invoked exactly
\* one of the two, once.
C18_ExactlyOneCallback ==
    \A c \in DOMAIN calls :
        /\ Len(calls[c].success) + Len(calls[c].failure) <= 1
        /\ calls[c].pending = "none" => Len(calls[c].success) + Len(calls[c].failure) = 1

\* C19: at most one timeout is armed per key, and a timeout that expires
\* removes a record only if it is the record of the call that armed it.
C19_TimerRemovesOwnRecord ==
    /\ [](\A t1 \in timers, t2 \in timers : t1.key = t2.key => t1 = t2)
    /\ [][\A t \in timers :
            (TimerFires(t) /\ Stored(captchas, t.key) /\ ~Stored(captchas', t.key))
            => ReadyBy(t.id)]_vars

(***************************************************************************)
(* The order of arguments.                                                 *)
(***************************************************************************)
\* C20: solve hands the operator's function the values of its operands in
\* the order they are popped and latex fills $1, $2 in that same order: the
\* operand on top of the stack is the first argument and fills $1, so
\* [5, 3, subtraction] has the value 3 - 5 = -2 and the markup 3 - 5.
C20_PopOrder ==
    /\ (expr.solved /\ InstanceofOperator(Last(expr.exp))) =>
          LET subs == OperandStacks(Front(expr.exp), Last(expr.exp).arity)
          IN  expr.answer = Apply(Last(expr.exp).op, [i \in DOMAIN subs |-> solve(subs[i]).value])
    /\ (expr.rendered /\ OperatorCount(expr.exp) = 1) =>
          expr.latex = Fill(Last(expr.exp).latex,
                            <<<<ToString(expr.exp[2].literal)>>, <<ToString(expr.exp[1].literal)>>>>)
    /\ expr.exp = <<Lit(5), Lit(3), Subtraction>> =>
          /\ expr.solved => expr.answer = Int2Num(-2)
          /\ expr.rendered => expr.latex = <<"3", "-", "5">>

C20_Witness ==
    /\ expr.exp = <<Lit(5), Lit(3), Subtraction>>
    /\ expr.solved
    /\ expr.rendered
    /\ expr.answer = Int2Num(-2)
    /\ expr.latex = <<"3", "-", "5">>

(***************************************************************************)
(* The shape of a generated stack.                                         *)
(***************************************************************************)
\* C21: for a valid configuration and the default (binary) operators, a
\* generated stack holds opCount operators, minOps <= opCount <= maxOps,
\* and opCount + 1 literals, each an element of values; its first two
\* tokens are literals and its last token is an operator.
C21_StackShape ==
    expr.generated =>
        LET opCount == OperatorCount(expr.exp) IN
        /\ options.minOps <= opCount
        /\ opCount <= options.maxOps
        /\ Len(expr.exp) = 2 * opCount + 1
        /\ \A i \in DOMAIN expr.exp :
              \/ InstanceofOperator(expr.exp[i])
              \/ /\ "literal" \in DOMAIN expr.exp[i]
                 /\ \E j \in DOMAIN options.values : options.values[j] = expr.exp[i].literal
        /\ ~InstanceofOperator(expr.exp[1])
        /\ ~InstanceofOperator(expr.exp[2])
        /\ InstanceofOperator(Last(expr.exp))

C21_Witness ==
    /\ expr.generated
    /\ options.minOps = 1
    /\ options.maxOps = 2
    /\ OperatorCount(expr.exp) = 2
    /\ Len(expr.exp) = 5
    /\ Len(options.values) = 2
    /\ expr.exp[1] # expr.exp[2]

(***************************************************************************)
(* Rendering stacks the generator does not build.                          *)
(***************************************************************************)
\* C22: for every well-formed stack over the four default operators, also
\* one whose operand popped first (the one that fills $1) is itself an
\* operator's expression, the markup latex returns, read with the usual
\* precedence, denotes the value solve returns for the same stack.
C22_RenderAgreesOnAnyStack ==
    (expr.solved /\ expr.rendered) =>
        /\ ReadMarkup(expr.latex).ok
        /\ ReadMarkup(expr.latex).value = expr.answer

(***************************************************************************)
(* Copies.                                                                 *)
(***************************************************************************)
\* C23: the stack kept in a record is the generator's output, unconsumed:
\* it is one of the stacks generateExpression returns, latex and solve each
\* pop every token of a copy of it, and the record's markup and answer are
\* what they return for it.
C23_RecordKeepsExpression ==
    \A key \in DOMAIN captchas :
        Stored(captchas, key) =>
            LET record == captchas[key] IN
            /\ record.exp \in generateExpression(operators, options.minOps, options.maxOps,
                                                  options.values)
            /\ Len(record.exp) > 0
            /\ latex(record.exp).expression = << >>
            /\ ~latex(record.exp).underflow
            /\ solve(record.exp).expression = << >>
            /\ ~solve(record.exp).underflow
            /\ record.latex = wrapLatex(latex(record.exp).value)
            /\ record.answer = solve(record.exp).value

C23_Witness ==
    \E key \in DOMAIN captchas :
        /\ Ready(captchas, key)
        /\ captchas[key].exp = <<Lit(2), Lit(2), Division>>
        /\ captchas[key].answer = Int2Num(1)
        /\ captchas[key].latex = wrapLatex(<<"\\frac{", "2", "}{", "2", "}">>)

(***************************************************************************)
(* Queries.                                                                *)
(***************************************************************************)
\* C24: a getImage or check call, on any key and with any answer and
\* places, leaves the map with every record's fields and the armed timeouts
\* as they were, so that the same check gives the same result again.
C24_QueriesReadOnly ==
    [][ret'.op \in {"getImage", "check"} =>
          /\ UNCHANGED <<captchas, timers, calls, files, commands>>
          /\ \A key \in ClientKeys :
                /\ (ret'.op = "check" /\ ret'.key = key) =>
                      \A answer \in Answers, places \in 0 .. MaxPlaces :
                          check(key, answer, places)' = check(key, answer, places)
                /\ (ret'.op = "getImage" /\ ret'.key = key) =>
                      getImage(key)' = ret'.value]_vars

C24_Witness ==
    /\ ret.op = "check"
    /\ ret.value = Boolean(FALSE)
    /\ ret.answer = Int2Num(5)
    /\ Ready(captchas, ret.key)
    /\ captchas[ret.key].answer = Int2Num(4)
    /\ \E t \in timers : t.key = ret.key

====
